---- MODULE Spec2Model ----
(***************************************************************************)
(* Voice-to-GRBL controller (src/voice_to_grbl.py): the command parser     *)
(* (words_to_number, parse_command), the GRBL serial helpers (grbl_open,   *)
(* grbl_send, configure_for_rotations, move_rotations) and the main loop.  *)
(*                                                                         *)
(* Representation.  A Python str is a sequence of one-character strings.   *)
(* A float magnitude is an integer number of hundredths of a rotation      *)
(* (1.5 is 150, "quarter" is 25); None is <<>> and a value v is <<v>>.     *)
(***************************************************************************)
EXTENDS Integers, Sequences, FiniteSets, TLC

VARIABLES pc, segs, text, direction, turns, line, ret, cfgIdx, outstanding,
          cycleWrites, hsLog, total_steps, exc

vars == <<pc, segs, text, direction, turns, line, ret, cfgIdx, outstanding,
          cycleWrites, hsLog, total_steps, exc>>

\* ---- CONFIG ------------------------------------------------------------
MOTOR_STEPS_PER_REV == 200
MICROSTEP == 16
FEED_RPM == 60

\* Longest transcript, in transcriber segments.
MaxSegs == 2

\* ---- Python values -----------------------------------------------------
NoneVal == <<>>
Some(v) == <<v>>

The(S) == CHOOSE x \in S : TRUE
SetMin(S) == CHOOSE x \in S : \A y \in S : x <= y
SetMax(S) == CHOOSE x \in S : \A y \in S : x >= y

\* ---- str primitives ----------------------------------------------------
Letters == {"a","b","c","d","e","f","g","h","i","j","k","l","m","n","o","p","q",
            "r","s","t","u","v","w","x","y","z"}
Digits == {"0","1","2","3","4","5","6","7","8","9"}
DigitVal == ("0" :> 0) @@ ("1" :> 1) @@ ("2" :> 2) @@ ("3" :> 3) @@ ("4" :> 4) @@
            ("5" :> 5) @@ ("6" :> 6) @@ ("7" :> 7) @@ ("8" :> 8) @@ ("9" :> 9)
UpperToLower ==
    ("A" :> "a") @@ ("B" :> "b") @@ ("C" :> "c") @@ ("D" :> "d") @@ ("E" :> "e") @@
    ("F" :> "f") @@ ("G" :> "g") @@ ("H" :> "h") @@ ("I" :> "i") @@ ("J" :> "j") @@
    ("K" :> "k") @@ ("L" :> "l") @@ ("M" :> "m") @@ ("N" :> "n") @@ ("O" :> "o") @@
    ("P" :> "p") @@ ("Q" :> "q") @@ ("R" :> "r") @@ ("S" :> "s") @@ ("T" :> "t") @@
    ("U" :> "u") @@ ("V" :> "v") @@ ("W" :> "w") @@ ("X" :> "x") @@ ("Y" :> "y") @@
    ("Z" :> "z")

\* regex classes \d, \w, \s
IsDigit(c) == c \in Digits
IsWordChar(c) == c \in Letters \/ c \in DOMAIN UpperToLower \/ c \in Digits \/ c = "_"
IsSpace(c) == c \in {" ", "\t", "\n", "\r"}

\* str.lower()
lower(t) == [i \in 1..Len(t) |-> IF t[i] \in DOMAIN UpperToLower THEN UpperToLower[t[i]] ELSE t[i]]

\* str.strip()
RECURSIVE FirstNonSpace(_, _)
FirstNonSpace(t, i) == IF i <= Len(t) /\ IsSpace(t[i]) THEN FirstNonSpace(t, i + 1) ELSE i
RECURSIVE LastNonSpace(_, _)
LastNonSpace(t, i) == IF i >= 1 /\ IsSpace(t[i]) THEN LastNonSpace(t, i - 1) ELSE i
strip(t) == SubSeq(t, FirstNonSpace(t, 1), LastNonSpace(t, Len(t)))

\* str.replace("-", " ")
replace_dash(t) == [i \in 1..Len(t) |-> IF t[i] = "-" THEN " " ELSE t[i]]

\* t[p:].startswith(w), p counted from 1
StartsAt(t, p, w) == p >= 1 /\ p + Len(w) - 1 <= Len(t) /\ SubSeq(t, p, p + Len(w) - 1) = w

\* Python's substring test `w in t`
Contains(t, w) == \E i \in 1..(Len(t) - Len(w) + 1) : StartsAt(t, i, w)

\* " ".join(parts)
RECURSIVE join(_)
join(parts) ==
    IF parts = <<>> THEN <<>>
    ELSE IF Len(parts) = 1 THEN parts[1]
    ELSE parts[1] \o <<" ">> \o join(Tail(parts))

\* ---- Command parsing ---------------------------------------------------
W_zero == <<"z","e","r","o">>
W_one == <<"o","n","e">>
W_two == <<"t","w","o">>
W_three == <<"t","h","r","e","e">>
W_four == <<"f","o","u","r">>
W_five == <<"f","i","v","e">>
W_six == <<"s","i","x">>
W_seven == <<"s","e","v","e","n">>
W_eight == <<"e","i","g","h","t">>
W_nine == <<"n","i","n","e">>
W_ten == <<"t","e","n">>
W_eleven == <<"e","l","e","v","e","n">>
W_twelve == <<"t","w","e","l","v","e">>
W_half == <<"h","a","l","f">>
W_quarter == <<"q","u","a","r","t","e","r">>
W_and == <<"a","n","d">>
W_a == <<"a">>

\* _NUM_WORDS in the dict's insertion order, values in hundredths
NUM_WORDS == <<
    [w |-> W_zero, v |-> 0], [w |-> W_one, v |-> 100], [w |-> W_two, v |-> 200],
    [w |-> W_three, v |-> 300], [w |-> W_four, v |-> 400], [w |-> W_five, v |-> 500],
    [w |-> W_six, v |-> 600], [w |-> W_seven, v |-> 700], [w |-> W_eight, v |-> 800],
    [w |-> W_nine, v |-> 900], [w |-> W_ten, v |-> 1000],
    [w |-> W_eleven, v |-> 1100], [w |-> W_twelve, v |-> 1200],
    [w |-> W_half, v |-> 50], [w |-> W_quarter, v |-> 25] >>

\* `key in _NUM_WORDS` and `_NUM_WORDS[key]`
InNumWords(key) == \E k \in 1..Len(NUM_WORDS) : NUM_WORDS[k].w = key
NumWordsAt(key) == NUM_WORDS[CHOOSE k \in 1..Len(NUM_WORDS) : NUM_WORDS[k].w = key].v

\* end of the maximal run of \d, \w or \s characters that starts at i
RECURSIVE DigitRunEnd(_, _)
DigitRunEnd(t, i) == IF i < Len(t) /\ IsDigit(t[i + 1]) THEN DigitRunEnd(t, i + 1) ELSE i
RECURSIVE WordRunEnd(_, _)
WordRunEnd(t, i) == IF i < Len(t) /\ IsWordChar(t[i + 1]) THEN WordRunEnd(t, i + 1) ELSE i
RECURSIVE SpaceRunEnd(_, _)
SpaceRunEnd(t, i) == IF i < Len(t) /\ IsSpace(t[i + 1]) THEN SpaceRunEnd(t, i + 1) ELSE i

\* value of a digit string
RECURSIVE DecVal(_)
DecVal(ds) ==
    IF ds = <<>> THEN 0
    ELSE DecVal(SubSeq(ds, 1, Len(ds) - 1)) * 10 + DigitVal[ds[Len(ds)]]

\* re.search(r"(\d+(\.\d+)?)", t): the leftmost match, greedy; <<>> when none.
NumeralSearch(t) ==
    LET starts == {i \in 1..Len(t) : IsDigit(t[i])}
    IN  IF starts = {} THEN NoneVal
        ELSE LET s == SetMin(starts)
                 e == DigitRunEnd(t, s)
                 hasFrac == e + 2 <= Len(t) /\ t[e + 1] = "." /\ IsDigit(t[e + 2])
             IN  Some([int  |-> SubSeq(t, s, e),
                       frac |-> IF hasFrac THEN SubSeq(t, e + 2, DigitRunEnd(t, e + 2))
                                ELSE <<>>])

\* float(m.group(1)) in hundredths (exact for at most two fraction digits,
\* which is all the transcripts below contain; further digits are dropped)
float(m) ==
    LET f  == m.frac
        d1 == IF Len(f) >= 1 THEN DigitVal[f[1]] ELSE 0
        d2 == IF Len(f) >= 2 THEN DigitVal[f[2]] ELSE 0
    IN  DecVal(m.int) * 100 + d1 * 10 + d2

\* (and\s+a\s+)?<tail> matched at position p
TailMatches(t, p, tail) ==
    \/ StartsAt(t, p, tail)
    \/ /\ StartsAt(t, p, W_and)
       /\ p + 3 <= Len(t) /\ IsSpace(t[p + 3])
       /\ LET q == SpaceRunEnd(t, p + 3) + 1
          IN  /\ StartsAt(t, q, W_a)
              /\ q + 1 <= Len(t) /\ IsSpace(t[q + 1])
              /\ StartsAt(t, SpaceRunEnd(t, q + 1) + 1, tail)

\* re.search(r"(\w+)\s+(and\s+a\s+)?<tail>", t): group(1) of the leftmost
\* match, <<>> when there is none.  \w+ is greedy and must be followed by
\* whitespace, so from a start s it can only end where its word run ends.
CompoundSearch(t, tail) ==
    LET starts == {s \in 1..Len(t) :
                     /\ IsWordChar(t[s])
                     /\ LET e == WordRunEnd(t, s)
                        IN  /\ e + 1 <= Len(t) /\ IsSpace(t[e + 1])
                            /\ TailMatches(t, SpaceRunEnd(t, e + 1) + 1, tail)}
    IN  IF starts = {} THEN NoneVal
        ELSE LET s == SetMin(starts) IN Some(SubSeq(t, s, WordRunEnd(t, s)))

\* re.search(rf"\b{w}\b", t)
WholeWordSearch(t, w) ==
    \E i \in 1..(Len(t) - Len(w) + 1) :
        /\ StartsAt(t, i, w)
        /\ (i = 1 \/ ~IsWordChar(t[i - 1]))
        /\ (i + Len(w) > Len(t) \/ ~IsWordChar(t[i + Len(w)]))

\* the `for w,v in _NUM_WORDS.items()` loop: the first key, in dict order,
\* found as a whole word
SingleWordSearch(t) ==
    LET hits == {k \in 1..Len(NUM_WORDS) : WholeWordSearch(t, NUM_WORDS[k].w)}
    IN  IF hits = {} THEN NoneVal ELSE Some(NUM_WORDS[SetMin(hits)].v)

\* the rule chain of words_to_number on the normalised text
RuleChain(t) ==
    LET m == NumeralSearch(t)
        h == CompoundSearch(t, W_half)
        q == CompoundSearch(t, W_quarter)
    IN  IF m /= NoneVal THEN Some(float(m[1]))
        ELSE IF h /= NoneVal /\ InNumWords(h[1]) THEN Some(NumWordsAt(h[1]) + 50)
        ELSE IF q /= NoneVal /\ InNumWords(q[1]) THEN Some(NumWordsAt(q[1]) + 25)
        ELSE SingleWordSearch(t)

\* text = text.lower().strip(); text = text.replace("-", " "); then the rules
\* (the normalised text is bound once, as the assignment does)
words_to_number(txt) == The({RuleChain(t) : t \in {replace_dash(strip(lower(txt)))}})

W_stop == <<"s","t","o","p">>
W_hold == <<"h","o","l","d">>
W_pause == <<"p","a","u","s","e">>
W_forward == <<"f","o","r","w","a","r","d">>
W_clockwise == <<"c","l","o","c","k","w","i","s","e">>
W_cw == <<"c","w">>
W_backward == <<"b","a","c","k","w","a","r","d">>
W_reverse == <<"r","e","v","e","r","s","e">>
W_counter == <<"c","o","u","n","t","e","r">>
W_anticlockwise == <<"a","n","t","i","c","l","o","c","k","w","i","s","e">>
W_ccw == <<"c","c","w">>

\* the three vocabulary lists of parse_command
StopWords == {W_stop, W_hold, W_pause}
ForwardWords == {W_forward, W_clockwise, W_cw}
BackwardWords == {W_backward, W_reverse, W_counter, W_anticlockwise, W_ccw}

\* any(w in t for w in [...])
AnyIn(t, ws) == \E w \in ws : Contains(t, w)

\* if any(w in t for w in ["stop", "hold", "pause"])
IsStop_WholeText(t) == t \in StopWords
IsStop(t) == AnyIn(t, StopWords)

\* dir_ after the two direction tests
Direction(t) ==
    LET d1 == IF AnyIn(t, ForwardWords) THEN "forward" ELSE "None"
    IN  IF AnyIn(t, BackwardWords)
        THEN (IF d1 = "None" THEN "backward" ELSE d1)
        ELSE d1

\* the body of parse_command after t = text.lower(); both branches of the
\* unit-word test call words_to_number(t)
Interpretation(t) ==
    IF IsStop(t) THEN <<"stop", Some(0)>>
    ELSE <<Direction(t), words_to_number(t)>>

parse_command(txt) == The({Interpretation(t) : t \in {lower(txt)}})

\* ---- Transcriber (external): the segment texts it may return ------------
SegTexts == {
    W_stop, W_hold, W_pause,
    <<"a","c","t","u","a","l","l","y"," ","s","t","o","p">>,
    W_forward, W_clockwise, W_cw,
    <<" ","F","o","r","w","a","r","d"," ","t","w","o"," ","t","u","r","n","s",",">>,
    W_backward, W_reverse, W_counter, W_anticlockwise, W_ccw,
    W_zero, W_one, W_two, W_half, W_quarter,
    <<"1",".","5">>,
    <<"o","n","e"," ","a","n","d"," ","a"," ","h","a","l","f">>,
    <<"t","u","r","n","s">> }

\* the transcripts of n segments
Transcripts(n) == [1..n -> SegTexts]

\* text = " ".join(s.text.strip() for s in segs).strip()
TranscriptText(ss) == strip(join([i \in 1..Len(ss) |-> strip(ss[i])]))

\* ---- GRBL helpers ------------------------------------------------------
\* round(): n/d to the nearest integer, ties to even; n >= 0, d > 0
round(n, d) ==
    LET q == n \div d
        r == n % d
    IN  IF 2 * r < d THEN q
        ELSE IF 2 * r > d THEN q + 1
        ELSE IF q % 2 = 0 THEN q ELSE q + 1

RECURSIVE Pow10(_)
Pow10(k) == IF k = 0 THEN 1 ELSE 10 * Pow10(k - 1)

\* f"{x:.<places>f}" of x given in hundredths: the printed number as an
\* integer count of 10^-places
Fmt(h, places) ==
    IF places >= 2 THEN h * Pow10(places - 2)
    ELSE IF h >= 0 THEN round(h, Pow10(2 - places))
    ELSE -round(-h, Pow10(2 - places))

\* a protocol line: command word, its number as printed, feed as printed
Line(cmd, arg, feed) == [cmd |-> cmd, arg |-> arg, feed |-> feed]
NoLine == Line("", 0, 0)
StatusQuery == Line("?", 0, 0)
StopByte == Line("0x85", 0, 0)

steps_per_rotation == MOTOR_STEPS_PER_REV * MICROSTEP

\* the three grbl_send calls of configure_for_rotations, in order
ConfigLines_G91First == <<
    Line("G91", 0, 0),
    Line("$100", Fmt(steps_per_rotation * 100, 3), 0),
    Line("$110", Fmt(FEED_RPM * 100, 1), 0) >>
ConfigLines == <<
    Line("$100", Fmt(steps_per_rotation * 100, 3), 0),
    Line("$110", Fmt(FEED_RPM * 100, 1), 0),
    Line("G91", 0, 0) >>

ConfigCmds == {"$100", "$110", "G91"}

\* g of move_rotations (a backward move of 0.0 prints as X-0.0000; the sign
\* of zero is not kept here)
MoveLine(dir, t) ==
    LET sign == IF dir = "forward" THEN 1 ELSE -1
        distance_mm == sign * t
    IN  Line("G1", Fmt(distance_mm, 4), Fmt(FEED_RPM * 100, 2))

\* if (direction is None) or (turns is None)
Unrecognized_And(d, t) == d = "None" /\ t = NoneVal
Unrecognized_NotTurns(d, t) == d = "None" \/ t = NoneVal \/ t = Some(0)
Unrecognized(d, t) == d = "None" \/ t = NoneVal

\* grbl_send after ser.write: time.sleep(wait), then the read
AfterWritePc_NoSettle == ret
AfterWritePc == "send_sleep"


\* ---- Main --------------------------------------------------------------
\* the order in which grbl_open and configure_for_rotations act
HandshakeEvent(e) == Append(hsLog, e)

\* values of the per-cycle variables before a command cycle assigns them
cycleVarsReset ==
    /\ segs' = <<>>
    /\ text' = <<>>
    /\ direction' = "unset"
    /\ turns' = NoneVal
    /\ total_steps' = NoneVal
    /\ cycleWrites' = <<>>

Init ==
    /\ pc = "start"
    /\ segs = <<>>
    /\ text = <<>>
    /\ direction = "unset"
    /\ turns = NoneVal
    /\ line = NoLine
    /\ ret = "none"
    /\ cfgIdx = 1
    /\ outstanding = 0
    /\ cycleWrites = <<>>
    /\ hsLog = <<>>
    /\ total_steps = NoneVal
    /\ exc = "none"

\* grbl_open: serial.Serial(port, baud) succeeds
OpenPort ==
    /\ pc = "start"
    /\ pc' = "open_sleep1"
    /\ hsLog' = HandshakeEvent("open")
    /\ UNCHANGED <<segs, text, direction, turns, line, ret, cfgIdx, outstanding,
                   cycleWrites, total_steps, exc>>

\* grbl_open: serial.Serial raises; nothing catches it and the process ends
OpenFail ==
    /\ pc = "start"
    /\ pc' = "crashed"
    /\ exc' = "SerialException"
    /\ UNCHANGED <<segs, text, direction, turns, line, ret, cfgIdx, outstanding,
                   cycleWrites, hsLog, total_steps>>

\* grbl_open: time.sleep(2)
OpenSleep1 ==
    /\ pc = "open_sleep1"
    /\ pc' = "open_wake"
    /\ hsLog' = HandshakeEvent("sleep")
    /\ UNCHANGED <<segs, text, direction, turns, line, ret, cfgIdx, outstanding,
                   cycleWrites, total_steps, exc>>

\* grbl_open: ser.write(b"\r\n\r\n")
OpenWake ==
    /\ pc = "open_wake"
    /\ pc' = "open_sleep2"
    /\ hsLog' = HandshakeEvent("wake")
    /\ UNCHANGED <<segs, text, direction, turns, line, ret, cfgIdx, outstanding,
                   cycleWrites, total_steps, exc>>

\* grbl_open: time.sleep(2)
OpenSleep2 ==
    /\ pc = "open_sleep2"
    /\ pc' = "open_flush"
    /\ hsLog' = HandshakeEvent("sleep")
    /\ UNCHANGED <<segs, text, direction, turns, line, ret, cfgIdx, outstanding,
                   cycleWrites, total_steps, exc>>

\* grbl_open: ser.flushInput(); return ser
OpenFlush ==
    /\ pc = "open_flush"
    /\ pc' = "configure"
    /\ hsLog' = HandshakeEvent("flush")
    /\ UNCHANGED <<segs, text, direction, turns, line, ret, cfgIdx, outstanding,
                   cycleWrites, total_steps, exc>>

\* configure_for_rotations: the next grbl_send call, or the return to main,
\* which goes on (ensure_csv, the banner) to the head of the loop
configure_for_rotations ==
    /\ pc = "configure"
    /\ IF cfgIdx <= Len(ConfigLines)
       THEN /\ line' = ConfigLines[cfgIdx]
            /\ ret' = "configure"
            /\ cfgIdx' = cfgIdx + 1
            /\ pc' = "send_write"
            /\ UNCHANGED cycleWrites
       ELSE /\ pc' = "prompt"
            /\ cycleWrites' = <<>>
            /\ UNCHANGED <<line, ret, cfgIdx>>
    /\ UNCHANGED <<segs, text, direction, turns, outstanding, hsLog, total_steps, exc>>

\* grbl_send: ser.write((line+"\n").encode("ascii"))
GrblSendWrite ==
    /\ pc = "send_write"
    /\ pc' = AfterWritePc
    /\ outstanding' = outstanding + 1
    /\ cycleWrites' = Append(cycleWrites, line)
    /\ hsLog' = IF line.cmd \in ConfigCmds THEN HandshakeEvent(line.cmd) ELSE hsLog
    /\ UNCHANGED <<segs, text, direction, turns, line, ret, cfgIdx, total_steps, exc>>

\* grbl_send: time.sleep(wait)
GrblSendSleep ==
    /\ pc = "send_sleep"
    /\ pc' = "send_read"
    /\ UNCHANGED <<segs, text, direction, turns, line, ret, cfgIdx, outstanding,
                   cycleWrites, hsLog, total_steps, exc>>

\* grbl_send: out = ser.read_all()...; return out
GrblSendRead ==
    /\ pc = "send_read"
    /\ pc' = ret
    /\ outstanding' = outstanding - 1
    /\ line' = NoLine
    /\ ret' = "none"
    /\ UNCHANGED <<segs, text, direction, turns, cfgIdx, cycleWrites, hsLog,
                   total_steps, exc>>

\* a serial write or read raises serial.SerialException: no try/except in
\* grbl_open, grbl_send or main catches it, and __main__ catches only
\* KeyboardInterrupt, so the process ends with a traceback
IOFail ==
    /\ pc \in {"open_wake", "open_flush", "send_write", "send_read", "stop_write"}
    /\ pc' = "crashed"
    /\ exc' = "SerialException"
    /\ UNCHANGED <<segs, text, direction, turns, line, ret, cfgIdx, outstanding,
                   cycleWrites, hsLog, total_steps>>

\* input("Press ENTER and speak"): ENTER
Prompt ==
    /\ pc = "prompt"
    /\ pc' = "listen"
    /\ UNCHANGED <<segs, text, direction, turns, line, ret, cfgIdx, outstanding,
                   cycleWrites, hsLog, total_steps, exc>>

\* Ctrl+C anywhere in main(): except KeyboardInterrupt, print "Bye!", exit
KeyboardInterrupt ==
    /\ pc \notin {"crashed", "bye"}
    /\ pc' = "bye"
    /\ exc' = "KeyboardInterrupt"
    /\ UNCHANGED <<segs, text, direction, turns, line, ret, cfgIdx, outstanding,
                   cycleWrites, hsLog, total_steps>>

\* record_wav, asr.transcribe, text = " ".join(...).strip()
Listen ==
    /\ pc = "listen"
    /\ \E n \in 0..MaxSegs : \E ss \in Transcripts(n) :
          /\ segs' = ss
          /\ text' = TranscriptText(ss)
    /\ pc' = "interpret"
    /\ UNCHANGED <<direction, turns, line, ret, cfgIdx, outstanding, cycleWrites,
                   hsLog, total_steps, exc>>

\* direction, turns = parse_command(text) and the two tests that follow
Interpret ==
    /\ pc = "interpret"
    /\ \E r \in {parse_command(text)} :
           /\ direction' = r[1]
           /\ turns' = r[2]
           /\ pc' = IF r[1] = "stop" THEN "stop_write"
                    ELSE IF Unrecognized(r[1], r[2]) THEN "cycle_end"
                    ELSE "move"
    /\ UNCHANGED <<segs, text, line, ret, cfgIdx, outstanding, cycleWrites, hsLog,
                   total_steps, exc>>

\* ser.write(b"\x85")
WriteStopByte ==
    /\ pc = "stop_write"
    /\ pc' = "stop_sleep"
    /\ cycleWrites' = Append(cycleWrites, StopByte)
    /\ UNCHANGED <<segs, text, direction, turns, line, ret, cfgIdx, outstanding,
                   hsLog, total_steps, exc>>

\* time.sleep(0.5); grbl_send(ser, "?"); continue
StopStatusQuery ==
    /\ pc = "stop_sleep"
    /\ line' = StatusQuery
    /\ ret' = "cycle_end"
    /\ pc' = "send_write"
    /\ UNCHANGED <<segs, text, direction, turns, cfgIdx, outstanding, cycleWrites,
                   hsLog, total_steps, exc>>

\* move_rotations up to its grbl_send call; sign * None raises TypeError
move_rotations ==
    /\ pc = "move"
    /\ IF turns = NoneVal
       THEN /\ pc' = "crashed"
            /\ exc' = "TypeError"
            /\ UNCHANGED <<line, ret>>
       ELSE /\ line' = MoveLine(direction, turns[1])
            /\ ret' = "report"
            /\ pc' = "send_write"
            /\ UNCHANGED exc
    /\ UNCHANGED <<segs, text, direction, turns, cfgIdx, outstanding, cycleWrites,
                   hsLog, total_steps>>

\* total_steps = int(round(steps_per_turn * turns)), the CSV row, the report
Report ==
    /\ pc = "report"
    /\ total_steps' = Some(round(steps_per_rotation * turns[1], 100))
    /\ pc' = "cycle_end"
    /\ UNCHANGED <<segs, text, direction, turns, line, ret, cfgIdx, outstanding,
                   cycleWrites, hsLog, exc>>

\* `continue`, or the end of the loop body: back to input()
LoopBack ==
    /\ pc = "cycle_end"
    /\ pc' = "prompt"
    /\ cycleVarsReset
    /\ UNCHANGED <<line, ret, cfgIdx, outstanding, hsLog, exc>>

Next ==
    \/ OpenPort \/ OpenFail \/ OpenSleep1 \/ OpenWake \/ OpenSleep2 \/ OpenFlush
    \/ configure_for_rotations
    \/ GrblSendWrite \/ GrblSendSleep \/ GrblSendRead \/ IOFail
    \/ Prompt \/ KeyboardInterrupt \/ Listen \/ Interpret
    \/ WriteStopByte \/ StopStatusQuery \/ move_rotations \/ Report \/ LoopBack

Spec == Init /\ [][Next]_vars


\* ---- Properties --------------------------------------------------------
\* The vocabularies as the specification lists them.
StopVocabulary == {W_stop, W_hold, W_pause}
ForwardVocabulary == {W_forward, W_clockwise, W_cw}
BackwardVocabulary == {W_backward, W_reverse, W_counter, W_anticlockwise, W_ccw}
Cardinals == {NUM_WORDS[k].w : k \in 1..13}

\* the transcript says one of the words ws, as a word of its own
Says(t, ws) == \E w \in ws : WholeWordSearch(lower(t), w)

\* the current cycle's transcript has been interpreted
Interpreted == direction /= "unset"
IsMove == direction \in {"forward", "backward"}

\* the cycle has written a G1 move line
WroteG1 == \E i \in 1..Len(cycleWrites) : cycleWrites[i].cmd = "G1"

ExpectedHandshake == <<"open", "sleep", "wake", "sleep", "flush", "$100", "$110", "G91">>
IsPrefix(a, b) == Len(a) <= Len(b) /\ SubSeq(b, 1, Len(a)) = a

\* the handshake and the three configuration sends are over
SessionEstablished ==
    /\ hsLog = ExpectedHandshake
    /\ cfgIdx > Len(ConfigLines)
    /\ ret /= "configure"

\* C1: a transcript that says "stop", "hold" or "pause" is interpreted as
\* Stop whatever else it says, and its cycle writes no G1 move line.
C1_StopPrecedence ==
    Says(text, StopVocabulary)
        => /\ Interpreted => direction = "stop"
           /\ pc \notin {"move", "report"}
           /\ ~WroteG1

\* C1 witness: the cycle of a transcript saying a direction, a magnitude and
\* a stop word has ended with the stop byte and the status query only.
C1_Witness ==
    /\ pc = "cycle_end"
    /\ Says(text, StopVocabulary)
    /\ Says(text, ForwardVocabulary)
    /\ Says(text, {W_two})
    /\ direction = "stop"
    /\ cycleWrites = <<StopByte, StatusQuery>>

\* C2: a cycle whose transcript is empty, or is interpreted with no
\* direction or no magnitude, writes nothing to the serial port (no line,
\* no control byte) and goes straight back to the prompt (or ends on Ctrl+C).
C2_NoWriteWhenUnrecognized ==
    (Interpreted /\ direction /= "stop"
        /\ (text = <<>> \/ direction = "None" \/ turns = NoneVal))
        => (cycleWrites = <<>> /\ total_steps = NoneVal /\ pc \in {"cycle_end", "bye"})

\* C2 witness: a cycle with a direction and no magnitude has ended with
\* nothing written.
C2_Witness ==
    /\ pc = "cycle_end"
    /\ direction = "forward"
    /\ turns = NoneVal
    /\ cycleWrites = <<>>

\* C3: at most one protocol line is outstanding: a line is written only
\* when the settling wait and read of the previous one are over.
C3_OneOutstandingLine ==
    /\ outstanding \in {0, 1}
    /\ pc = "send_write" => outstanding = 0
    /\ outstanding = 1 => pc \in {"send_sleep", "send_read", "crashed", "bye"}
    /\ pc \in {"stop_write", "stop_sleep"} => outstanding = 0

\* C3 witness: a move line is in its settling wait, after the handshake's
\* lines were written and read one by one.
C3_Witness ==
    /\ pc = "send_sleep"
    /\ line.cmd = "G1"
    /\ outstanding = 1
    /\ SessionEstablished

\* C4 (as claimed): a process that has ended on an error ended on the
\* failure to open the port, never on an I/O failure of an established
\* session.
C4_LoopSurvivesIOFailure == pc = "crashed" => ~SessionEstablished

\* C5 (as claimed): while a move line is in its settling wait the stop byte
\* can be written.
C5_StopByteDuringSettle ==
    (pc = "send_sleep" /\ line.cmd = "G1") => ENABLED WriteStopByte

\* position of the first whole-word occurrence in t of a word of ws
FirstSaid(t, ws) ==
    SetMin({i \in 1..Len(t) : \E w \in ws :
              /\ StartsAt(t, i, w)
              /\ (i = 1 \/ ~IsWordChar(t[i - 1]))
              /\ (i + Len(w) > Len(t) \/ ~IsWordChar(t[i + Len(w)]))})

\* C6 (as claimed): when the transcript says both a forward and a backward
\* word, the direction is that of the word said first.
C6_FirstOccurrenceWins ==
    (Interpreted /\ direction /= "stop"
        /\ Says(text, ForwardVocabulary) /\ Says(text, BackwardVocabulary))
        => direction = (IF FirstSaid(lower(text), ForwardVocabulary)
                            < FirstSaid(lower(text), BackwardVocabulary)
                        THEN "forward" ELSE "backward")

\* The resolver as the specification states it: rule 2 is the first
\* "<cardinal> [and a] half|quarter" of the text, rule 3 the number word
\* that comes first in the text.
StatedCompound(t) ==
    LET starts == {s \in 1..Len(t) :
                     /\ IsWordChar(t[s])
                     /\ (s = 1 \/ ~IsWordChar(t[s - 1]))
                     /\ SubSeq(t, s, WordRunEnd(t, s)) \in Cardinals
                     /\ LET e == WordRunEnd(t, s)
                        IN  /\ e + 1 <= Len(t) /\ IsSpace(t[e + 1])
                            /\ \/ TailMatches(t, SpaceRunEnd(t, e + 1) + 1, W_half)
                               \/ TailMatches(t, SpaceRunEnd(t, e + 1) + 1, W_quarter)}
    IN  IF starts = {} THEN NoneVal
        ELSE LET s == SetMin(starts)
                 e == WordRunEnd(t, s)
             IN  Some(NumWordsAt(SubSeq(t, s, e))
                      + (IF TailMatches(t, SpaceRunEnd(t, e + 1) + 1, W_half)
                         THEN 50 ELSE 25))

StatedSingle(t) ==
    LET keys == {NUM_WORDS[k].w : k \in 1..Len(NUM_WORDS)}
    IN  IF ~\E w \in keys : WholeWordSearch(t, w) THEN NoneVal
        ELSE LET i == FirstSaid(t, keys)
             IN  Some(NumWordsAt(SubSeq(t, i, WordRunEnd(t, i))))

StatedResolve(t) ==
    IF NumeralSearch(t) /= NoneVal THEN Some(float(NumeralSearch(t)[1]))
    ELSE IF StatedCompound(t) /= NoneVal THEN StatedCompound(t)
    ELSE StatedSingle(t)

\* C7 (as claimed): the magnitude is the value of the first matching rule,
\* numeral, then compound, then single word, each at its first match in the
\* text, and None exactly when no rule matches.
C7_FirstRuleFirstMatch ==
    (Interpreted /\ direction /= "stop")
        => turns = StatedResolve(replace_dash(strip(lower(text))))

\* the only quantity the transcript says is the word "zero"
SaysOnlyZero(t) ==
    /\ Says(t, {W_zero})
    /\ \A i \in 1..Len(t) : ~IsDigit(t[i])
    /\ ~Contains(lower(t), W_half)
    /\ ~Contains(lower(t), W_quarter)

\* C8: zero and unknown are kept apart.  A direction with magnitude zero is
\* executed as a move of 0 steps; a direction with no magnitude writes no
\* move; every move written has a magnitude, and it is not negative.
C8_ZeroIsNotUnknown ==
    /\ (Interpreted /\ direction /= "stop" /\ SaysOnlyZero(text)) => turns = Some(0)
    /\ (pc = "cycle_end" /\ IsMove /\ turns = Some(0))
          => /\ total_steps = Some(0)
             /\ Len(cycleWrites) = 1
             /\ cycleWrites[1].cmd = "G1"
             /\ cycleWrites[1].arg = 0
    /\ (IsMove /\ turns = NoneVal) => (~WroteG1 /\ total_steps = NoneVal)
    /\ (WroteG1 \/ pc \in {"move", "report"})
          => (IsMove /\ turns /= NoneVal /\ turns[1] >= 0)

\* C8 witness: "forward zero" has been executed as a move of 0 steps.
C8_Witness ==
    /\ pc = "cycle_end"
    /\ direction = "forward"
    /\ Says(text, {W_zero})
    /\ turns = Some(0)
    /\ total_steps = Some(0)
    /\ WroteG1

\* C9: the handshake happens once, in the order open, delay, wake, delay,
\* flush, $100=3200.000, $110=60.0, G91; nothing else is written and the
\* loop is not entered before it is over, and no configuration line is
\* sent again.
C9_HandshakeOnceInOrder ==
    /\ IsPrefix(hsLog, ExpectedHandshake)
    /\ \A i \in 1..Len(cycleWrites) :
          /\ cycleWrites[i].cmd = "$100" => cycleWrites[i].arg = 3200000
          /\ cycleWrites[i].cmd = "$110" => cycleWrites[i].arg = 600
          /\ cycleWrites[i].cmd \notin ConfigCmds => SessionEstablished
    /\ (pc \in {"send_write", "send_sleep", "send_read"} /\ line.cmd \notin ConfigCmds)
          => SessionEstablished
    /\ pc \in {"prompt", "listen", "interpret", "stop_write", "stop_sleep", "move",
               "report", "cycle_end"}
          => (SessionEstablished /\ outstanding = 0)

\* C9 witness: the stop byte has been written, after the whole handshake.
C9_Witness ==
    /\ pc = "stop_sleep"
    /\ cycleWrites = <<StopByte>>
    /\ hsLog = ExpectedHandshake

\* C10 (as claimed): a transcript whose only direction word is a backward
\* word, with a magnitude, is interpreted as Backward and its move line
\* carries a negative distance.
C10_BackwardWordsGiveBackward ==
    (Interpreted /\ direction /= "stop"
        /\ Says(text, BackwardVocabulary) /\ ~Says(text, ForwardVocabulary)
        /\ turns /= NoneVal)
        => /\ direction = "backward"
           /\ \A i \in 1..Len(cycleWrites) :
                 cycleWrites[i].cmd = "G1" =>
                    (cycleWrites[i].arg <= 0 /\ (turns[1] > 0 => cycleWrites[i].arg < 0))

====
